---- MODULE Spec2Model ----
(***************************************************************************)
(* Question-generation service: the allocator that turns proportions into  *)
(* integer cell counts (main/app.py, src/utils/utils_*.py), the builder of *)
(* the metadata sequence, the three response parsers and the request       *)
(* handler that runs one generation job per question type.                 *)
(*                                                                         *)
(* Proportions are Python floats in the source.  Here a proportion is the  *)
(* exact fraction num/den and round() is round-half-to-even on the exact   *)
(* value of the product.                                                   *)
(*                                                                         *)
(* utils_mcq.py and utils_tf.py are stored with every double quote written *)
(* as \" ; they are modelled as the Python they spell once the backslashes *)
(* are dropped, which is what utils_fib.py, their sibling, contains.       *)
(***************************************************************************)
EXTENDS Integers, Sequences, FiniteSets, TLC

VARIABLES
    total_questions,      \* request.total_questions / num_questions
    question_type_dist,   \* request.question_type_distribution (insertion order)
    difficulty_dist,      \* request.difficulty_distribution
    blooms_dist,          \* request.blooms_taxonomy_distribution
    apc,                  \* position of the allocator driver
    distribution,         \* outcome of calculate_question_distribution
    question_breakdown,   \* outcome of the per-type breakdown of generate_*
    question_sequence,    \* create_question_sequence(question_breakdown)
    parser,               \* which parse function is applied: "mcq", "fib", "tf"
    res,                  \* the backend text handed to the parse function
    ppc,                  \* position of the parser driver
    responses,            \* the "response" list the parse function builds
    rpc,                  \* position of generate_questions (the request handler)
    content_summary,      \* the shared summary of the request
    summary_calls,        \* calls made to the summarization backend
    jobs,                 \* the futures of the request, in dispatch order
    files,                \* the JSON files on disk: file name -> "response" list
    status,               \* local variable status of generate_questions
    error_message,        \* local variable error_message
    files_generated,      \* local variable files_generated
    all_question_data,    \* local variable all_question_data (type -> data)
    response,             \* what the caller receives
    audit                 \* put_item calls on the DynamoDB table, with outcome

allocVars == <<total_questions, question_type_dist, difficulty_dist, blooms_dist,
               apc, distribution, question_breakdown, question_sequence>>

parseVars == <<parser, res, ppc, responses>>

requestVars == <<rpc, content_summary, summary_calls, jobs, files, status,
                 error_message, files_generated, all_question_data, response,
                 audit>>

vars == <<allocVars, parseVars, requestVars>>

----------------------------------------------------------------------------
(* Bounds *)

MaxTotal == 6
Den == 4
MaxTextLen == 4
MaxRequestTotal == 3
MaxAnswerLen == 5

\* Proportions are multiples of 1/3 or of 1/Den.
Denominators == {3, Den}

----------------------------------------------------------------------------
(* Labels *)

QuestionTypes == <<"mcq", "fib", "tf">>
DifficultyLevels == <<"basic", "intermediate", "advanced">>
BloomsLevels == <<"remember", "apply", "analyze">>

----------------------------------------------------------------------------
(* Arithmetic *)

RECURSIVE SumCounts(_)
SumCounts(cells) ==
    IF cells = <<>> THEN 0 ELSE Head(cells).count + SumCounts(Tail(cells))

\* round(n / d): Python 3 rounds an exact tie to the even neighbour.
Round(n, d) ==
    LET q == n \div d
        r == n % d
    IN  IF 2 * r < d THEN q
        ELSE IF 2 * r > d THEN q + 1
        ELSE IF q % 2 = 0 THEN q ELSE q + 1

\* max(d.keys(), key=count): the first key of the largest count.
LargestKey(cells) ==
    CHOOSE i \in 1..Len(cells) :
        /\ \A j \in 1..Len(cells) : cells[j].count <= cells[i].count
        /\ \A j \in 1..(i - 1) : cells[j].count < cells[i].count

\* "Adjust counts to ensure total matches exactly"; max() of no keys raises
\* ValueError.
Adjust(cells, total) ==
    LET total_calculated == SumCounts(cells)
    IN  IF total_calculated = total
        THEN [raised |-> FALSE, cells |-> cells]
        ELSE IF cells = <<>>
        THEN [raised |-> TRUE, cells |-> <<>>]
        ELSE LET k == LargestKey(cells)
             IN  [raised |-> FALSE,
                  cells |-> [cells EXCEPT
                      ![k].count = cells[k].count + (total - total_calculated)]]

----------------------------------------------------------------------------
(* calculate_question_distribution *)

GlobalCell(total, q, d, b) ==
    LET q_count == Round(total * q.num, q.den)
        d_count == Round(q_count * d.num, d.den)
        b_count == Round(d_count * b.num, b.den)
    IN  [question_type |-> q.label, difficulty |-> d.label,
         blooms_level |-> b.label, count |-> b_count]

GlobalCells(total, qd, dd, bd) ==
    LET nd == Len(dd)
        nb == Len(bd)
        all == [k \in 1..(Len(qd) * nd * nb) |->
                   GlobalCell(total,
                              qd[((k - 1) \div (nd * nb)) + 1],
                              dd[(((k - 1) \div nb) % nd) + 1],
                              bd[((k - 1) % nb) + 1])]
        Positive(c) == c.count > 0
    IN  SelectSeq(all, Positive)

calculate_question_distribution(total, qd, dd, bd) ==
    Adjust(GlobalCells(total, qd, dd, bd), total)

----------------------------------------------------------------------------
(* The breakdown of generate_mcqs / generate_fill_in_blank /               *)
(* generate_true_false                                                     *)

BreakdownCell(num_questions, d, b) ==
    [difficulty |-> d.label, blooms_level |-> b.label,
     count |-> Round(num_questions * d.num * b.num, d.den * b.den)]

BreakdownCells(num_questions, dd, bd) ==
    LET nb == Len(bd)
        all == [k \in 1..(Len(dd) * nb) |->
                   BreakdownCell(num_questions,
                                 dd[((k - 1) \div nb) + 1],
                                 bd[((k - 1) % nb) + 1])]
        Positive(c) == c.count > 0
    IN  SelectSeq(all, Positive)

QuestionBreakdown(num_questions, dd, bd) ==
    Adjust(BreakdownCells(num_questions, dd, bd), num_questions)

----------------------------------------------------------------------------
(* create_question_sequence *)

\* range(count) is empty for count <= 0.
RECURSIVE Repeat(_, _)
Repeat(x, n) == IF n <= 0 THEN <<>> ELSE <<x>> \o Repeat(x, n - 1)

RECURSIVE create_question_sequence(_)
create_question_sequence(breakdown) ==
    IF breakdown = <<>> THEN <<>>
    ELSE Repeat(<<Head(breakdown).difficulty, Head(breakdown).blooms_level>>,
                Head(breakdown).count)
         \o create_question_sequence(Tail(breakdown))

----------------------------------------------------------------------------
(* Text.  A string is a sequence of characters in which each marker        *)
(* keyword is one atomic character; "" is the empty sequence.              *)

Whitespace == {" ", "\n"}
Digits == {"1"}

Contains(s, m) == \E i \in 1..Len(s) : s[i] = m

IndexOf(s, m) == CHOOSE i \in 1..Len(s) : s[i] = m /\ \A j \in 1..(i - 1) : s[j] # m

\* str.split(sep): the pieces around every occurrence of sep.
RECURSIVE Split(_, _)
Split(s, sep) ==
    IF ~Contains(s, sep) THEN <<s>>
    ELSE LET i == IndexOf(s, sep)
         IN  <<SubSeq(s, 1, i - 1)>> \o Split(SubSeq(s, i + 1, Len(s)), sep)

\* str.strip(): drops leading and trailing whitespace.
RECURSIVE LStrip(_)
LStrip(s) ==
    IF s # <<>> /\ Head(s) \in Whitespace THEN LStrip(Tail(s)) ELSE s

RECURSIVE RStrip(_)
RStrip(s) ==
    IF s # <<>> /\ s[Len(s)] \in Whitespace
    THEN RStrip(SubSeq(s, 1, Len(s) - 1)) ELSE s

Strip(s) == RStrip(LStrip(s))

\* [b.strip() for b in res.split(boundary) if b.strip()]
Blocks(text, boundary) ==
    LET pieces == Split(text, boundary)
        stripped == [i \in 1..Len(pieces) |-> Strip(pieces[i])]
        NonEmpty(b) == b # <<>>
    IN  SelectSeq(stripped, NonEmpty)

\* list[k - 1]: an index past the end raises IndexError, here the string
\* made of the one character "IndexError", which no text contains.
IndexError == <<"IndexError">>

At(pieces, k) == IF k <= Len(pieces) THEN pieces[k] ELSE IndexError

\* '. ' in line, and line.split('. ', 1)[1]
HasDotSpace(line) ==
    \E i \in 1..(Len(line) - 1) : line[i] = "." /\ line[i + 1] = " "

AfterDotSpace(line) ==
    LET i == CHOOSE k \in 1..(Len(line) - 1) :
                 /\ line[k] = "." /\ line[k + 1] = " "
                 /\ \A j \in 1..(k - 1) : ~(line[j] = "." /\ line[j + 1] = " ")
    IN  SubSeq(line, i + 2, Len(line))

----------------------------------------------------------------------------
(* Field extraction of parse_mcq, parse_fill_in_blank, parse_true_false    *)

\* "Extract question content": the text before the first ANSWER:, and the
\* block cut down to "ANSWER:" + the piece after it.
PrimaryContent(block) ==
    IF Contains(block, "ANSWER:")
    THEN Strip(At(Split(block, "ANSWER:"), 1)) ELSE <<>>

AfterPrimary(block) ==
    IF Contains(block, "ANSWER:")
    THEN <<"ANSWER:">> \o At(Split(block, "ANSWER:"), 2) ELSE block

HasAnswerAndExplanation(block) ==
    Contains(block, "ANSWER:") /\ Contains(block, "EXPLANATION:")

AnswerText(block) ==
    Strip(At(Split(At(Split(block, "ANSWER:"), 2), "EXPLANATION:"), 1))

\* parse_mcq: the answer, and the block cut down to "EXPLANATION:" + rest.
McqAnswer(block) ==
    IF HasAnswerAndExplanation(block) THEN AnswerText(block) ELSE <<>>

McqAfterAnswer(block) ==
    IF HasAnswerAndExplanation(block)
    THEN <<"EXPLANATION:">> \o At(Split(block, "EXPLANATION:"), 2) ELSE block

McqExplanation(block) ==
    IF Contains(block, "EXPLANATION:")
    THEN LET explanation_text == At(Split(block, "EXPLANATION:"), 2)
         IN  IF Contains(explanation_text, "DISTRACTOR1:")
             THEN Strip(At(Split(explanation_text, "DISTRACTOR1:"), 1))
             ELSE Strip(explanation_text)
    ELSE <<>>

distractor_keys == <<"DISTRACTOR1:", "DISTRACTOR2:", "DISTRACTOR3:">>

Distractor(block, i) ==
    LET key == distractor_keys[i]
    IN  IF i + 1 <= Len(distractor_keys) /\ Contains(block, distractor_keys[i + 1])
        THEN Strip(At(Split(At(Split(block, key), 2), distractor_keys[i + 1]), 1))
        ELSE Strip(At(Split(block, key), 2))

\* (Distractor is applied only to a key that occurs in the block.)
RECURSIVE DistractorsFrom(_, _)
DistractorsFrom(block, i) ==
    IF i > Len(distractor_keys) THEN <<>>
    ELSE (IF Contains(block, distractor_keys[i])
          THEN <<Distractor(block, i)>> ELSE <<>>)
         \o DistractorsFrom(block, i + 1)

McqDistractors(block) == DistractorsFrom(block, 1)

\* parse_fill_in_blank: one list entry per non-empty stripped line of the
\* answer text; a line starting with a digit and containing ". " keeps what
\* follows the first ". ".
RECURSIVE AnswerItems(_)
AnswerItems(lines) ==
    IF lines = <<>> THEN <<>>
    ELSE LET line == Strip(Head(lines))
         IN  (IF line # <<>> /\ line[1] \in Digits /\ HasDotSpace(line)
              THEN <<Strip(AfterDotSpace(line))>>
              ELSE IF line # <<>> THEN <<line>> ELSE <<>>)
             \o AnswerItems(Tail(lines))

FibAnswer(block) ==
    IF HasAnswerAndExplanation(block)
    THEN AnswerItems(Split(AnswerText(block), "\n")) ELSE <<>>

\* parse_fill_in_blank and parse_true_false: everything after EXPLANATION:.
PlainExplanation(block) ==
    IF Contains(block, "EXPLANATION:")
    THEN Strip(At(Split(block, "EXPLANATION:"), 2)) ELSE <<>>

\* parse_true_false: the answer also without EXPLANATION:.
TfAnswerUnguarded(block) ==
    IF HasAnswerAndExplanation(block) THEN AnswerText(block)
    ELSE Strip(At(Split(block, "ANSWER:"), 2))

TfAnswer(block) ==
    IF HasAnswerAndExplanation(block) THEN AnswerText(block)
    ELSE IF Contains(block, "ANSWER:") THEN Strip(At(Split(block, "ANSWER:"), 2))
    ELSE <<>>

\* "Programmatically assign difficulty and blooms_level"
Difficulty(sequence, question_index) ==
    IF question_index < Len(sequence) THEN sequence[question_index + 1][1] ELSE ""

BloomsLevel(sequence, question_index) ==
    IF question_index < Len(sequence) THEN sequence[question_index + 1][2] ELSE ""

NextIndexStuck(sequence, question_index) == question_index

NextIndex(sequence, question_index) ==
    IF question_index < Len(sequence) THEN question_index + 1 ELSE question_index

McqRecord(block, sequence, question_index) ==
    [question |-> PrimaryContent(block),
     answer |-> McqAnswer(AfterPrimary(block)),
     explanation |-> McqExplanation(McqAfterAnswer(AfterPrimary(block))),
     distractors |-> McqDistractors(McqAfterAnswer(AfterPrimary(block))),
     difficulty |-> Difficulty(sequence, question_index),
     blooms_level |-> BloomsLevel(sequence, question_index),
     question_type |-> "mcq"]

FibRecord(block, sequence, question_index) ==
    [question |-> PrimaryContent(block),
     answer |-> FibAnswer(AfterPrimary(block)),
     explanation |-> PlainExplanation(AfterPrimary(block)),
     difficulty |-> Difficulty(sequence, question_index),
     blooms_level |-> BloomsLevel(sequence, question_index),
     question_type |-> "fib"]

TfRecord(block, sequence, question_index) ==
    [statement |-> PrimaryContent(block),
     answer |-> TfAnswer(AfterPrimary(block)),
     explanation |-> PlainExplanation(AfterPrimary(block)),
     difficulty |-> Difficulty(sequence, question_index),
     blooms_level |-> BloomsLevel(sequence, question_index),
     question_type |-> "tf"]

Boundary(kind) == IF kind = "tf" THEN "STATEMENT:" ELSE "QUESTION:"

Record(kind, block, sequence, question_index) ==
    IF kind = "mcq" THEN McqRecord(block, sequence, question_index)
    ELSE IF kind = "fib" THEN FibRecord(block, sequence, question_index)
    ELSE TfRecord(block, sequence, question_index)

\* The loop over the blocks, question_index carried from record to record.
RECURSIVE Responses(_, _, _, _)
Responses(kind, blocks, sequence, question_index) ==
    IF blocks = <<>> THEN <<>>
    ELSE <<Record(kind, Head(blocks), sequence, question_index)>>
         \o Responses(kind, Tail(blocks), sequence,
                      NextIndex(sequence, question_index))

\* Whether the extraction of a record raised.
Raised(kind, r) ==
    LET Bad(str) == Contains(str, "IndexError")
        primary == IF kind = "tf" THEN r.statement ELSE r.question
    IN  \/ Bad(primary)
        \/ Bad(r.explanation)
        \/ IF kind = "fib"
           THEN \E i \in 1..Len(r.answer) : Bad(r.answer[i])
           ELSE Bad(r.answer)
        \/ kind = "mcq" /\ \E i \in 1..Len(r.distractors) : Bad(r.distractors[i])

\* A parser that treats a text with fewer fragments than the sequence has
\* entries as an error.
ParseRaisingOnShortfall(kind, text, breakdown) ==
    LET blocks == Blocks(text, Boundary(kind))
        sequence == create_question_sequence(breakdown)
        rs == Responses(kind, blocks, sequence, 0)
    IN  IF Len(blocks) < Len(sequence) \/ \E i \in 1..Len(rs) : Raised(kind, rs[i])
        THEN [raised |-> TRUE, response |-> <<>>]
        ELSE [raised |-> FALSE, response |-> rs]

\* parse_mcq / parse_fill_in_blank / parse_true_false: the "response" list
\* written to the file, or the exception that ends the call.
Parse(kind, text, breakdown) ==
    LET rs == Responses(kind, Blocks(text, Boundary(kind)),
                        create_question_sequence(breakdown), 0)
    IN  IF \E i \in 1..Len(rs) : Raised(kind, rs[i])
        THEN [raised |-> TRUE, response |-> <<>>]
        ELSE [raised |-> FALSE, response |-> rs]

----------------------------------------------------------------------------
(* Inputs: distributions over a fixed list of labels whose proportions are *)
(* multiples of 1/den and sum to exactly 1; one request uses one den of    *)
(* Denominators.  For these inputs the float products of the source have   *)
(* the same rounding as the exact products: with den = 4 every product is  *)
(* exact in binary, with an odd den no product is a tie.                   *)

RECURSIVE SumNum(_)
SumNum(ns) == IF ns = <<>> THEN 0 ELSE Head(ns) + SumNum(Tail(ns))

DistributionsOver(labels, den) ==
    { [i \in 1..Len(labels) |-> [label |-> labels[i], num |-> ns[i], den |-> den]] :
        ns \in { m \in [1..Len(labels) -> 0..den] : SumNum(m) = den } }

NoResult == [raised |-> FALSE, cells |-> <<>>]

\* An optional value: Python's None, or a value v held as Some(v).
None == <<>>

Some(v) == <<v>>

\* What the caller gets: nothing yet, the returned QuestionResponse, or the
\* HTTPException(status_code=500) raised by the except clause.
NoResponse ==
    [outcome |-> "none", status |-> "", detail |-> "",
     files_generated |-> <<>>, data |-> <<>>]

QuestionResponse(s, generated, data) ==
    [outcome |-> "returned", status |-> s, detail |-> "",
     files_generated |-> generated, data |-> data]

HTTPException(message) ==
    [outcome |-> "raised", status |-> "",
     detail |-> "Error generating questions: " \o message,
     files_generated |-> <<>>, data |-> <<>>]

RequestIdle ==
    /\ rpc = "off"
    /\ content_summary = None
    /\ summary_calls = 0
    /\ jobs = <<>>
    /\ files = <<>>
    /\ status = "success"
    /\ error_message = ""
    /\ files_generated = <<>>
    /\ all_question_data = <<>>
    /\ response = NoResponse
    /\ audit = <<>>

ParseIdle ==
    /\ parser = ""
    /\ res = <<>>
    /\ ppc = "off"
    /\ responses = <<>>

AllocInit ==
    /\ ParseIdle
    /\ RequestIdle
    /\ total_questions \in 0..MaxTotal
    /\ \E den \in Denominators :
           /\ question_type_dist \in DistributionsOver(QuestionTypes, den)
           /\ difficulty_dist \in DistributionsOver(DifficultyLevels, den)
           /\ blooms_dist \in DistributionsOver(BloomsLevels, den)
    /\ apc = "input"
    /\ distribution = NoResult
    /\ question_breakdown = NoResult
    /\ question_sequence = <<>>

\* One call of calculate_question_distribution on the request's inputs.
CallAllocator ==
    /\ apc = "input"
    /\ distribution' = calculate_question_distribution(
                           total_questions, question_type_dist,
                           difficulty_dist, blooms_dist)
    /\ apc' = "global"
    /\ UNCHANGED <<total_questions, question_type_dist, difficulty_dist,
                   blooms_dist, question_breakdown, question_sequence>>
    /\ UNCHANGED <<parseVars, requestVars>>

\* One call of a generate_* function on num_questions = total_questions and
\* the two distributions: its breakdown and, when the adjustment does not
\* raise, the sequence its parser builds from the breakdown.
CallBreakdown ==
    /\ apc = "input"
    /\ question_breakdown' =
           QuestionBreakdown(total_questions, difficulty_dist, blooms_dist)
    /\ question_sequence' =
           IF question_breakdown'.raised THEN <<>>
           ELSE create_question_sequence(question_breakdown'.cells)
    /\ apc' = "breakdown"
    /\ UNCHANGED <<total_questions, question_type_dist, difficulty_dist,
                   blooms_dist, distribution>>
    /\ UNCHANGED <<parseVars, requestVars>>

AllocNext == CallAllocator \/ CallBreakdown

SpecAlloc == AllocInit /\ [][AllocNext]_vars

----------------------------------------------------------------------------
(* The parse functions on their own: every text of at most MaxTextLen      *)
(* characters over a parser's markers, whitespace and content characters,  *)
(* against a breakdown of 0, 1 or 3 questions.                             *)

Alphabet(p) ==
    IF p = "mcq"
    THEN {"QUESTION:", "ANSWER:", "EXPLANATION:",
          "DISTRACTOR1:", "DISTRACTOR2:", "DISTRACTOR3:", " ", "a"}
    ELSE IF p = "fib"
    THEN {"QUESTION:", "ANSWER:", "EXPLANATION:", " ", "\n", "1", ".", "a"}
    ELSE {"STATEMENT:", "ANSWER:", "EXPLANATION:", " ", "a", "b"}

Texts(p) == UNION { [1..n -> Alphabet(p)] : n \in 0..MaxTextLen }

SampleBreakdowns ==
    { <<>>,
      <<[difficulty |-> "basic", blooms_level |-> "remember", count |-> 1]>>,
      <<[difficulty |-> "basic", blooms_level |-> "remember", count |-> 1],
        [difficulty |-> "advanced", blooms_level |-> "analyze", count |-> 2]>> }

AllocIdle ==
    /\ total_questions = 0
    /\ question_type_dist = <<>>
    /\ difficulty_dist = <<>>
    /\ blooms_dist = <<>>
    /\ apc = "off"
    /\ distribution = NoResult

ParseInit ==
    /\ AllocIdle
    /\ RequestIdle
    /\ parser \in {"mcq", "fib", "tf"}
    /\ res \in Texts(parser)
    /\ question_breakdown \in
           { [raised |-> FALSE, cells |-> b] : b \in SampleBreakdowns }
    /\ question_sequence = create_question_sequence(question_breakdown.cells)
    /\ ppc = "text"
    /\ responses = <<>>

ParseStep(p) ==
    /\ ppc = "text"
    /\ parser = p
    /\ LET out == Parse(p, res, question_breakdown.cells)
       IN  /\ responses' = out.response
           /\ ppc' = IF out.raised THEN "raised" ELSE "parsed"
    /\ UNCHANGED <<parser, res>>
    /\ UNCHANGED <<allocVars, requestVars>>

parse_mcq == ParseStep("mcq")

parse_fill_in_blank == ParseStep("fib")

parse_true_false == ParseStep("tf")

ParseNext == parse_mcq \/ parse_fill_in_blank \/ parse_true_false

SpecParse == ParseInit /\ [][ParseNext]_vars

----------------------------------------------------------------------------
(* parse_fill_in_blank on one block "ANSWER: <answer text> EXPLANATION:",  *)
(* for every answer text of at most MaxAnswerLen characters over a digit,  *)
(* a period, a space, a newline and a letter.                              *)

AnswerAlphabet == {"1", ".", " ", "\n", "a"}

AnswerTexts == UNION { [1..n -> AnswerAlphabet] : n \in 0..MaxAnswerLen }

AnswerBlock(answer_text) == <<"ANSWER:">> \o answer_text \o <<"EXPLANATION:">>

AnswerInit ==
    /\ AllocIdle
    /\ RequestIdle
    /\ parser = "fib"
    /\ res \in { AnswerBlock(t) : t \in AnswerTexts }
    /\ question_breakdown = NoResult
    /\ question_sequence = <<>>
    /\ ppc = "text"
    /\ responses = <<>>

SpecAnswer == AnswerInit /\ [][parse_fill_in_blank]_vars

----------------------------------------------------------------------------
(* generate_questions (the request handler) and                            *)
(* generate_single_question_type_sync (the job run in the thread pool)     *)

max_workers == 3

\* Outcomes of the two backends: the summarizer returns a string or raises;
\* the generator returns a text or raises an exception whose str() is one
\* of ExceptionMessages (str(AssertionError()) is "").
Summaries == {"", "summary"}
ExceptionMessages == {"", "backend failure"}

OneRecord(kind) ==
    <<Boundary(kind), "a", "ANSWER:", "a", "EXPLANATION:", "a">>

BackendTexts(kind) ==
    {<<>>, OneRecord(kind), OneRecord(kind) \o OneRecord(kind)}

\* "Group by question type for generation": the types in order of first
\* appearance and the cells of one type.
RECURSIVE TypeOrder(_, _)
TypeOrder(cells, seen) ==
    IF cells = <<>> THEN <<>>
    ELSE IF Head(cells).question_type \in seen
    THEN TypeOrder(Tail(cells), seen)
    ELSE <<Head(cells).question_type>>
         \o TypeOrder(Tail(cells), seen \cup {Head(cells).question_type})

Configs(cells, t) ==
    LET OfType(c) == c.question_type = t
    IN  SelectSeq(cells, OfType)

\* "Create combined distributions for this question type": for each label
\* in order of first appearance, the sum of count / total_for_type.
RECURSIVE LabelOrder(_, _)
LabelOrder(labels, seen) ==
    IF labels = <<>> THEN <<>>
    ELSE IF Head(labels) \in seen THEN LabelOrder(Tail(labels), seen)
    ELSE <<Head(labels)>> \o LabelOrder(Tail(labels), seen \cup {Head(labels)})

RECURSIVE CountOf(_, _, _)
CountOf(labels, counts, l) ==
    IF labels = <<>> THEN 0
    ELSE (IF Head(labels) = l THEN Head(counts) ELSE 0)
         + CountOf(Tail(labels), Tail(counts), l)

LocalDistribution(labels, counts, total_for_type) ==
    LET order == LabelOrder(labels, {})
    IN  [i \in 1..Len(order) |->
            [label |-> order[i], num |-> CountOf(labels, counts, order[i]),
             den |-> total_for_type]]

DifficultyDistForType(configs) ==
    LocalDistribution([i \in 1..Len(configs) |-> configs[i].difficulty],
                      [i \in 1..Len(configs) |-> configs[i].count],
                      SumCounts(configs))

BloomsDistForType(configs) ==
    LocalDistribution([i \in 1..Len(configs) |-> configs[i].blooms_level],
                      [i \in 1..Len(configs) |-> configs[i].count],
                      SumCounts(configs))

\* int(prop * 100) truncates toward zero.
Percent(num, den) ==
    IF num >= 0 THEN (100 * num) \div den ELSE 0 - ((100 * (0 - num)) \div den)

DistributionStr(dist) ==
    [i \in 1..Len(dist) |-> <<dist[i].label, Percent(dist[i].num, dist[i].den)>>]

\* One file name ending for every question type.
SuffixShared(kind) == "questions"

Suffix(kind) ==
    IF kind = "mcq" THEN "mcqs" ELSE kind

\* f"{filter_value}_{difficulty_str}_{blooms_str}_{suffix}.json"
FileName(kind, dd, bd) ==
    <<"filter_value", DistributionStr(dd), DistributionStr(bd), Suffix(kind)>>

\* One future submitted with loop.run_in_executor.
NewJob(t, configs, summary) ==
    [question_type |-> t,
     configs |-> configs,
     content_summary |-> summary,
     difficulty_distribution |-> DifficultyDistForType(configs),
     blooms_distribution |-> BloomsDistForType(configs),
     state |-> "pending",
     generate_calls |-> 0,
     prompt_count |-> None,
     text |-> None,
     file_name |-> None,
     question_data |-> None,
     error |-> None]

\* A future counted as done as soon as a worker has taken it.
TerminalOnceStarted(job) == job.state # "pending"

Terminal(job) == job.state \in {"succeeded", "failed"}

\* A worker that stays taken by a job that failed.
RunningOrFailed(job) == job.state \in {"running", "written", "failed"}

Running(job) == job.state \in {"running", "written"}

\* `if content_summary is None` of generate_mcqs / _fill_in_blank / _true_false
SummaryMissingIfFalsy(summary) == summary \in {None, Some("")}

SummaryMissing(summary) == summary = None

\* `if error:` of the loop over the gathered results
Truthy(error) == error # None /\ error # Some("")

----------------------------------------------------------------------------
(* A request: inputs, then the handler's steps and the jobs' steps         *)

RequestInit ==
    /\ ParseIdle
    /\ apc = "off"
    /\ distribution = NoResult
    /\ question_breakdown = NoResult
    /\ question_sequence = <<>>
    /\ total_questions \in 0..MaxRequestTotal
    /\ \E den \in Denominators :
           /\ question_type_dist \in DistributionsOver(QuestionTypes, den)
           /\ difficulty_dist \in DistributionsOver(<<"basic", "advanced">>, den)
           /\ blooms_dist \in DistributionsOver(<<"remember">>, den)
    /\ rpc = "start"
    /\ content_summary = None
    /\ summary_calls = 0
    /\ jobs = <<>>
    /\ files = <<>>
    /\ status = "success"
    /\ error_message = ""
    /\ files_generated = <<>>
    /\ all_question_data = <<>>
    /\ response = NoResponse
    /\ audit = <<>>

requestInputs == <<total_questions, question_type_dist, difficulty_dist,
                   blooms_dist, apc, question_breakdown, question_sequence>>

\* A handler that goes on to the allocation after the summarizer raised.
ExceptClauseSkipped == "allocate"

\* `except Exception as e` leaves the try block: the next step of the
\* handler is the finally clause.
ExceptClause == "finally"

\* "Generate shared summary ONCE": generate_content_summary_sync returns the
\* summary or raises, and then the except clause runs.
Summarize ==
    /\ rpc = "start"
    /\ summary_calls' = summary_calls + 1
    /\ \/ /\ \E summary \in Summaries : content_summary' = Some(summary)
          /\ rpc' = "allocate"
          /\ UNCHANGED <<status, error_message>>
       \/ /\ \E m \in ExceptionMessages : error_message' = m
          /\ status' = "error"
          /\ rpc' = ExceptClause
          /\ UNCHANGED content_summary
    /\ UNCHANGED <<jobs, files, files_generated, all_question_data, response,
                   audit, distribution>>
    /\ UNCHANGED <<requestInputs, parseVars>>

\* Index of the first type whose cells sum to 0 (count / total_for_type
\* raises ZeroDivisionError there), or 0.
FirstZeroTotal(cells, types) ==
    LET zero == { i \in 1..Len(types) : SumCounts(Configs(cells, types[i])) = 0 }
    IN  IF zero = {} THEN 0 ELSE CHOOSE i \in zero : \A j \in zero : i <= j

\* calculate_question_distribution, the grouping by type and the submission
\* of one future per type; an exception raised here leaves the `with` block,
\* which waits for the futures already submitted.
Dispatch ==
    /\ rpc = "allocate"
    /\ LET out == calculate_question_distribution(
                      total_questions, question_type_dist,
                      difficulty_dist, blooms_dist)
           types == TypeOrder(out.cells, {})
           z == FirstZeroTotal(out.cells, types)
           n == IF z = 0 THEN Len(types) ELSE z - 1
       IN  /\ distribution' = out
           /\ IF out.raised
              THEN /\ jobs' = <<>>
                   /\ status' = "error"
                   /\ error_message' = "max() arg is an empty sequence"
                   /\ rpc' = "finally"
              ELSE /\ jobs' = [i \in 1..n |->
                                  NewJob(types[i], Configs(out.cells, types[i]),
                                         content_summary)]
                   /\ IF z = 0
                      THEN /\ rpc' = "awaiting"
                           /\ UNCHANGED <<status, error_message>>
                      ELSE /\ rpc' = "shutdown"
                           /\ UNCHANGED <<status, error_message>>
    /\ UNCHANGED <<content_summary, summary_calls, files, files_generated,
                   all_question_data, response, audit>>
    /\ UNCHANGED <<requestInputs, parseVars>>

\* A pool in which a queued future never waits for a worker.
WorkerAlwaysFree(futures) == TRUE

\* ThreadPoolExecutor(max_workers=3): a future is taken from the queue only
\* by one of the max_workers threads, each running one future at a time.
WorkerFree(futures) ==
    Cardinality({ k \in 1..Len(futures) : Running(futures[k]) }) < max_workers

\* A worker thread of the pool takes the oldest pending future.
JobStart(j) ==
    /\ jobs[j].state = "pending"
    /\ \A k \in 1..(j - 1) : jobs[k].state # "pending"
    /\ WorkerFree(jobs)
    /\ jobs' = [jobs EXCEPT ![j].state = "running"]
    /\ UNCHANGED <<rpc, content_summary, summary_calls, files, status,
                   error_message, files_generated, all_question_data, response,
                   audit, distribution>>
    /\ UNCHANGED <<requestInputs, parseVars>>

\* A job that runs generate_* again after its first backend call failed.
FailedThenRetried(job, message) ==
    IF job.generate_calls = 1 /\ job.text = None
    THEN [job EXCEPT !.state = "running"]
    ELSE [job EXCEPT !.state = "failed", !.error = Some(message)]

\* except Exception as e: return question_type, None, None, str(e)
Failed(job, message) ==
    [job EXCEPT !.state = "failed", !.error = Some(message)]

\* query_engine.query(prompt), the prompt saying
\* "Create exactly {num_questions} ..."
Queried(job, num_questions) ==
    [job EXCEPT !.generate_calls = @ + 1, !.prompt_count = Some(num_questions)]

\* generate_mcqs / generate_fill_in_blank / generate_true_false called by
\* the job: the summary fallback, the breakdown, one query of the generation
\* backend, the parse and the write of the JSON file.  Every exception is
\* caught by the job, which then returns str(e) as its error.
JobGenerate(j) ==
    /\ jobs[j].state = "running"
    /\ LET job == jobs[j]
           kind == job.question_type
           total_for_type == SumCounts(job.configs)
           breakdown == QuestionBreakdown(total_for_type,
                                          job.difficulty_distribution,
                                          job.blooms_distribution)
           file_name == FileName(kind, job.difficulty_distribution,
                                 job.blooms_distribution)
       IN  IF kind \notin {"mcq", "fib", "tf"}
           THEN /\ jobs' = [jobs EXCEPT ![j] = Failed(job,
                       "local variable 'file_name' referenced before assignment")]
                /\ UNCHANGED <<summary_calls, files>>
           ELSE /\ summary_calls' =
                       IF SummaryMissing(job.content_summary)
                       THEN summary_calls + 1 ELSE summary_calls
                /\ IF breakdown.raised
                   THEN /\ jobs' = [jobs EXCEPT ![j] =
                               Failed(job, "max() arg is an empty sequence")]
                        /\ UNCHANGED files
                   ELSE \/ \E m \in ExceptionMessages :
                             /\ jobs' = [jobs EXCEPT ![j] =
                                    Failed(Queried(job, total_for_type), m)]
                             /\ UNCHANGED files
                        \/ \E text \in BackendTexts(kind) :
                             LET out == Parse(kind, text, breakdown.cells)
                             IN  IF out.raised
                                 THEN /\ jobs' = [jobs EXCEPT ![j] =
                                             Failed([Queried(job, total_for_type)
                                                        EXCEPT !.text = Some(text)],
                                                    "list index out of range")]
                                      /\ UNCHANGED files
                                 ELSE /\ jobs' = [jobs EXCEPT ![j] =
                                             [Queried(job, total_for_type)
                                                 EXCEPT !.text = Some(text),
                                                        !.state = "written"]]
                                      /\ files' = (file_name :> out.response) @@ files
    /\ UNCHANGED <<rpc, content_summary, status, error_message, files_generated,
                   all_question_data, response, audit, distribution>>
    /\ UNCHANGED <<requestInputs, parseVars>>

\* "Read the generated JSON file" and return
\* (question_type, file_name, question_data, None).
JobReadBack(j) ==
    /\ jobs[j].state = "written"
    /\ LET job == jobs[j]
           file_name == FileName(job.question_type, job.difficulty_distribution,
                                 job.blooms_distribution)
       IN  jobs' = [jobs EXCEPT ![j] =
               IF file_name \in DOMAIN files
               THEN [job EXCEPT !.state = "succeeded",
                                !.file_name = Some(file_name),
                                !.question_data = Some(files[file_name])]
               ELSE Failed(job, "No such file or directory")]
    /\ UNCHANGED <<rpc, content_summary, summary_calls, files, status,
                   error_message, files_generated, all_question_data, response,
                   audit, distribution>>
    /\ UNCHANGED <<requestInputs, parseVars>>

\* "Process results": the loop over the gathered results, in dispatch order;
\* the first result with a truthy error raises.
RECURSIVE ProcessLoop(_, _, _)
ProcessLoop(results, generated, data) ==
    IF results = <<>>
    THEN [raised |-> FALSE, message |-> "",
          files_generated |-> generated, all_question_data |-> data]
    ELSE LET result == Head(results)
         IN  IF Truthy(result.error)
             THEN [raised |-> TRUE,
                   message |-> "Error in " \o result.question_type \o ": "
                                  \o result.error[1],
                   files_generated |-> generated, all_question_data |-> data]
             ELSE ProcessLoop(Tail(results),
                              Append(generated, result.file_name),
                              (result.question_type :> result.question_data) @@ data)

\* await asyncio.gather(...) returns once every future is done.
ProcessResults ==
    /\ rpc = "awaiting"
    /\ \A j \in 1..Len(jobs) : Terminal(jobs[j])
    /\ LET out == ProcessLoop(jobs, <<>>, <<>>)
       IN  /\ files_generated' = out.files_generated
           /\ all_question_data' = out.all_question_data
           /\ status' = IF out.raised THEN "error" ELSE "success"
           /\ error_message' = out.message
    /\ rpc' = "finally"
    /\ UNCHANGED <<content_summary, summary_calls, jobs, files, response, audit,
                   distribution>>
    /\ UNCHANGED <<requestInputs, parseVars>>

\* The exception raised while submitting reaches the except clause after the
\* executor has shut down, that is after every submitted future is done.
Shutdown ==
    /\ rpc = "shutdown"
    /\ \A j \in 1..Len(jobs) : Terminal(jobs[j])
    /\ status' = "error"
    /\ error_message' = "division by zero"
    /\ rpc' = "finally"
    /\ UNCHANGED <<content_summary, summary_calls, jobs, files,
                   files_generated, all_question_data, response,
                   audit, distribution>>
    /\ UNCHANGED <<requestInputs, parseVars>>

\* The finally clause: with a table, put_item stores the item or raises (the
\* exception is caught and printed); without a table nothing is put.  In the
\* item, json.dumps(x) is held as <<x>> and the empty string as <<>>.  Then
\* the return of the response or the HTTPException.
Finally ==
    /\ rpc = "finally"
    /\ \/ \E outcome \in {"saved", "raised"} :
              audit' = Append(audit,
                  [status |-> status, error_message |-> error_message,
                   files_generated |-> files_generated,
                   response_data |-> IF all_question_data = <<>> THEN <<>>
                                     ELSE <<all_question_data>>,
                   outcome |-> outcome])
       \/ UNCHANGED audit
    /\ response' =
           IF status = "success"
           THEN QuestionResponse(status, files_generated, all_question_data)
           ELSE HTTPException(error_message)
    /\ rpc' = "done"
    /\ UNCHANGED <<content_summary, summary_calls, jobs, files, status,
                   error_message, files_generated, all_question_data,
                   distribution>>
    /\ UNCHANGED <<requestInputs, parseVars>>

Next ==
    \/ Summarize
    \/ Dispatch
    \/ \E j \in 1..Len(jobs) : JobStart(j)
    \/ \E j \in 1..Len(jobs) : JobGenerate(j)
    \/ \E j \in 1..Len(jobs) : JobReadBack(j)
    \/ ProcessResults
    \/ Shutdown
    \/ Finally

Spec == RequestInit /\ [][Next]_vars

----------------------------------------------------------------------------
(* A request processed while another request with the same filter value    *)
(* and the same distributions is processed: the handler is a coroutine,    *)
(* and while it awaits its futures the event loop serves the other         *)
(* request, whose jobs run in a thread pool of their own.  The other       *)
(* request is seen through the one thing it shares with this one, the      *)
(* files in the working directory; a write is taken as atomic.             *)

\* The job of the other request for the type of job j ends its generate_*
\* call: parse_* writes the records of its own backend text to
\* f"{filter_value}_{difficulty_str}_{blooms_str}_{suffix}.json".
OtherRequestWrite(j) ==
    /\ rpc \in {"awaiting", "shutdown"}
    /\ LET job == jobs[j]
           kind == job.question_type
           breakdown == QuestionBreakdown(SumCounts(job.configs),
                                          job.difficulty_distribution,
                                          job.blooms_distribution)
           file_name == FileName(kind, job.difficulty_distribution,
                                 job.blooms_distribution)
       IN  /\ kind \in {"mcq", "fib", "tf"}
           /\ ~breakdown.raised
           /\ \E text \in BackendTexts(kind) :
                  LET out == Parse(kind, text, breakdown.cells)
                  IN  /\ ~out.raised
                      /\ files' = (file_name :> out.response) @@ files
    /\ UNCHANGED <<rpc, content_summary, summary_calls, jobs, status,
                   error_message, files_generated, all_question_data, response,
                   audit, distribution>>
    /\ UNCHANGED <<requestInputs, parseVars>>

SharedNext ==
    \/ Next
    \/ \E j \in 1..Len(jobs) : OtherRequestWrite(j)

\* Two questions over two or three item types: halves give two jobs of one
\* question each, thirds give an allocation whose first type has total 0.
SharedInit ==
    /\ ParseIdle
    /\ apc = "off"
    /\ distribution = NoResult
    /\ question_breakdown = NoResult
    /\ question_sequence = <<>>
    /\ total_questions = 2
    /\ \E n \in 2..Len(QuestionTypes) :
           question_type_dist =
               [i \in 1..n |-> [label |-> QuestionTypes[i], num |-> 1, den |-> n]]
    /\ difficulty_dist = <<[label |-> "basic", num |-> 1, den |-> 1]>>
    /\ blooms_dist = <<[label |-> "remember", num |-> 1, den |-> 1]>>
    /\ rpc = "start"
    /\ content_summary = None
    /\ summary_calls = 0
    /\ jobs = <<>>
    /\ files = <<>>
    /\ status = "success"
    /\ error_message = ""
    /\ files_generated = <<>>
    /\ all_question_data = <<>>
    /\ response = NoResponse
    /\ audit = <<>>

SpecShared == SharedInit /\ [][SharedNext]_vars

----------------------------------------------------------------------------
(* A request with more item types than the pool has workers.               *)
(* question_type_distribution is a Dict[str, float]: any key is accepted,  *)
(* and a type that is none of mcq, fib, tf still gets a job.               *)

PoolTypes == <<"mcq", "fib", "tf", "essay">>

PoolInit ==
    /\ ParseIdle
    /\ apc = "off"
    /\ distribution = NoResult
    /\ question_breakdown = NoResult
    /\ question_sequence = <<>>
    /\ total_questions \in (Len(PoolTypes) - 1)..(Len(PoolTypes) + 1)
    /\ question_type_dist =
           [i \in 1..Len(PoolTypes) |->
               [label |-> PoolTypes[i], num |-> 1, den |-> Len(PoolTypes)]]
    /\ difficulty_dist = <<[label |-> "basic", num |-> 1, den |-> 1]>>
    /\ blooms_dist = <<[label |-> "remember", num |-> 1, den |-> 1]>>
    /\ rpc = "start"
    /\ content_summary = None
    /\ summary_calls = 0
    /\ jobs = <<>>
    /\ files = <<>>
    /\ status = "success"
    /\ error_message = ""
    /\ files_generated = <<>>
    /\ all_question_data = <<>>
    /\ response = NoResponse
    /\ audit = <<>>

\* The worker threads are scheduled and the backend call of a running job
\* returns or raises: a job step that stays possible is eventually taken.
PoolFairness ==
    \A j \in 1..Len(PoolTypes) :
        /\ WF_vars(j <= Len(jobs) /\ JobStart(j))
        /\ WF_vars(j <= Len(jobs) /\ JobGenerate(j))
        /\ WF_vars(j <= Len(jobs) /\ JobReadBack(j))

SpecPool == PoolInit /\ [][Next]_vars /\ PoolFairness

\* The request makes progress: while a step of the handler or of a job is
\* possible (the backend call of a running job returns or raises, a free
\* worker takes a queued future, the event loop resumes the handler), some
\* step is eventually taken.  This is implied by the fairness of every
\* single step.
Progress == WF_vars(Next)

SpecLive == PoolInit /\ [][Next]_vars /\ Progress

----------------------------------------------------------------------------
(* Claims about the allocator and the sequence builder (SpecAlloc)         *)

\* C1: for every total >= 0 and every type, difficulty and cognitive-level
\* distribution whose proportions sum to 1, calculate_question_distribution
\* returns without raising and the counts of the returned cells sum to the
\* total.
C1_ReturnsAndSumsToTotal ==
    apc = "global" =>
        /\ ~distribution.raised
        /\ SumCounts(distribution.cells) = total_questions

\* C2: every cell of an allocation returned by the global allocator or by
\* the per-type breakdown, after the remainder correction, has a count of
\* at least 1.
C2_EveryCellAtLeastOne ==
    /\ apc = "global" =>
           \A i \in 1..Len(distribution.cells) : distribution.cells[i].count >= 1
    /\ apc = "breakdown" =>
           \A i \in 1..Len(question_breakdown.cells) :
               question_breakdown.cells[i].count >= 1

\* Number of sequence entries that precede those of cell i.
RECURSIVE Offset(_, _)
Offset(cells, i) ==
    IF i <= 1 THEN 0 ELSE Offset(cells, i - 1) + cells[i - 1].count

\* C10: create_question_sequence returns the concatenation, in the
\* breakdown's insertion order, of each cell's (difficulty, blooms_level)
\* pair repeated exactly count times, so its length is the sum of the counts.
C10_SequenceIsCountRepeats ==
    (apc = "breakdown" /\ ~question_breakdown.raised) =>
        LET cells == question_breakdown.cells
        IN  /\ Len(question_sequence) = SumCounts(cells)
            /\ \A i \in 1..Len(cells) :
                   \A k \in 1..cells[i].count :
                       /\ Offset(cells, i) + k \in 1..Len(question_sequence)
                       /\ question_sequence[Offset(cells, i) + k] =
                              <<cells[i].difficulty, cells[i].blooms_level>>

----------------------------------------------------------------------------
(* Claims about the parse functions (SpecParse)                            *)

\* The non-empty stripped fragments of the text, in order.
Fragments == Blocks(res, Boundary(parser))

Primary(r) == IF parser = "tf" THEN r.statement ELSE r.question

\* C5: in each parse function the i-th parsed record (0-based, in fragment
\* order) gets the difficulty and blooms_level of entry i of the sequence
\* built from the breakdown when i < length of the sequence, and empty
\* strings when i >= length of the sequence.
C5_MetadataByPosition ==
    ppc = "parsed" =>
        /\ Len(responses) = Len(Fragments)
        /\ \A i \in 1..Len(responses) :
               IF i <= Len(question_sequence)
               THEN /\ responses[i].difficulty = question_sequence[i][1]
                    /\ responses[i].blooms_level = question_sequence[i][2]
               ELSE /\ responses[i].difficulty = ""
                    /\ responses[i].blooms_level = ""

\* Two records were parsed against a sequence of one entry: the first has
\* the entry's labels, the second has none.
C5_Witness ==
    /\ ppc = "parsed"
    /\ Len(responses) = 2
    /\ Len(question_sequence) = 1
    /\ responses[1].difficulty = "basic"
    /\ responses[2].difficulty = ""

DistractorKeysIn(frag) ==
    { k \in 1..Len(distractor_keys) : Contains(frag, distractor_keys[k]) }

\* C7: for every input text each parse function finishes without raising,
\* and every field whose marker does not occur in a fragment keeps its
\* empty default; a fragment without ANSWER: yields an empty answer.
C7_NoRaiseAndEmptyDefaults ==
    /\ ppc # "raised"
    /\ ppc = "parsed" =>
           /\ Len(responses) = Len(Fragments)
           /\ \A i \in 1..Len(responses) :
                  /\ ~Contains(Fragments[i], "ANSWER:") =>
                         responses[i].answer = <<>>
                  /\ ~Contains(Fragments[i], "EXPLANATION:") =>
                         responses[i].explanation = <<>>
                  /\ parser = "mcq" =>
                         Len(responses[i].distractors)
                             <= Cardinality(DistractorKeysIn(Fragments[i]))

\* A fragment that lacks ANSWER: and holds EXPLANATION: twice was parsed.
C7_Witness ==
    /\ ppc = "parsed"
    /\ \E i \in 1..Len(Fragments) :
           /\ ~Contains(Fragments[i], "ANSWER:")
           /\ Len(Split(Fragments[i], "EXPLANATION:")) = 3
           /\ responses[i].answer = <<>>

FieldMarkers ==
    IF parser = "mcq"
    THEN <<"ANSWER:", "EXPLANATION:", "DISTRACTOR1:", "DISTRACTOR2:", "DISTRACTOR3:">>
    ELSE <<"ANSWER:", "EXPLANATION:">>

\* Every field marker occurs at most once, the present ones in the
\* expected order.
WellOrdered(frag) ==
    /\ \A k \in 1..Len(FieldMarkers) : Len(Split(frag, FieldMarkers[k])) <= 2
    /\ \A j, k \in 1..Len(FieldMarkers) :
           (j < k /\ Contains(frag, FieldMarkers[j]) /\ Contains(frag, FieldMarkers[k]))
               => IndexOf(frag, FieldMarkers[j]) < IndexOf(frag, FieldMarkers[k])

IsFieldMarker(c) == \E k \in 1..Len(FieldMarkers) : c = FieldMarkers[k]

\* The trimmed text from position from up to the next marker or the end.
UpToNextMarker(frag, from) ==
    LET stops == { i \in from..Len(frag) : IsFieldMarker(frag[i]) } \cup {Len(frag) + 1}
        stop == CHOOSE i \in stops : \A j \in stops : i <= j
    IN  Strip(SubSeq(frag, from, stop - 1))

FieldText(frag, m) == UpToNextMarker(frag, IndexOf(frag, m) + 1)

RECURSIVE ExpectedDistractors(_, _)
ExpectedDistractors(frag, k) ==
    IF k > Len(distractor_keys) THEN <<>>
    ELSE (IF Contains(frag, distractor_keys[k])
          THEN <<FieldText(frag, distractor_keys[k])>> ELSE <<>>)
         \o ExpectedDistractors(frag, k + 1)

\* C8: for every fragment whose field markers each occur at most once and
\* in the expected order, each field whose marker is present gets the
\* trimmed text between its marker and the next marker that is present, or
\* the end of the fragment; this includes the primary content when ANSWER:
\* is absent and the answer when EXPLANATION: is absent.
C8_FieldIsTextUpToNextMarker ==
    (ppc = "parsed" /\ res # <<>> /\ res[1] = Boundary(parser)) =>
        \A i \in 1..Len(responses) :
            LET frag == Fragments[i]
                r == responses[i]
            IN  WellOrdered(frag) =>
                    /\ Primary(r) = UpToNextMarker(frag, 1)
                    /\ Contains(frag, "ANSWER:") =>
                           r.answer =
                               IF parser = "fib"
                               THEN AnswerItems(Split(FieldText(frag, "ANSWER:"), "\n"))
                               ELSE FieldText(frag, "ANSWER:")
                    /\ Contains(frag, "EXPLANATION:") =>
                           r.explanation = FieldText(frag, "EXPLANATION:")
                    /\ parser = "mcq" =>
                           r.distractors = ExpectedDistractors(frag, 1)

\* C9: text before the first record-boundary token never becomes a record
\* and never consumes a sequence entry: a text with k boundary tokens each
\* followed by non-empty content gives exactly k records, and the record of
\* the j-th boundary token gets sequence entry j.
C9_PreambleIsNoRecord ==
    ppc = "parsed" =>
        LET pieces == Split(res, Boundary(parser))
            k == Len(pieces) - 1
        IN  (\A j \in 2..Len(pieces) : Strip(pieces[j]) # <<>>) =>
                /\ Len(responses) = k
                /\ \A j \in 1..k :
                       /\ responses[j].difficulty = Difficulty(question_sequence, j - 1)
                       /\ responses[j].blooms_level = BloomsLevel(question_sequence, j - 1)


----------------------------------------------------------------------------
(* Claims about a request (Spec)                                           *)

AnyJobFailed == \E j \in 1..Len(jobs) : jobs[j].state = "failed"

\* C3: once the request has ended, if any dispatched job failed then the
\* caller got the failure and no response carrying item data.
C3_JobFailureFailsRequest ==
    (rpc = "done" /\ AnyJobFailed) =>
        /\ response.outcome = "raised"
        /\ response.data = <<>>

\* C4: the summarization backend is called exactly once per request, before
\* any job exists; every job holds that same summary, which is not None, so
\* no job makes a summarization call of its own.
C4_SummaryOnceBeforeDispatch ==
    /\ summary_calls = IF rpc = "start" THEN 0 ELSE 1
    /\ jobs # <<>> => \E summary \in Summaries : content_summary = Some(summary)
    /\ \A j \in 1..Len(jobs) :
           /\ jobs[j].content_summary = content_summary
           /\ jobs[j].content_summary # None

C4_Witness ==
    /\ rpc = "done"
    /\ Len(jobs) >= 2
    /\ content_summary = Some("")
    /\ summary_calls = 1
    /\ \A j \in 1..Len(jobs) : jobs[j].state = "succeeded"

\* The submission loop ran to its end (no type's cells summed to 0).
Dispatched ==
    /\ ~distribution.raised
    /\ FirstZeroTotal(distribution.cells, TypeOrder(distribution.cells, {})) = 0

Recovered(job) == Len(Blocks(job.text[1], Boundary(job.question_type)))

Shortfall(job) ==
    /\ job.text # None
    /\ Recovered(job) < SumCounts(job.configs)

\* C6: a job whose backend text holds fewer records than it requested does
\* not fail; it returns exactly one record per non-empty fragment and no
\* error; and a request all of whose jobs succeeded ends in success with
\* that job's records in its data.
C6_ShortfallStillSucceeds ==
    \A j \in 1..Len(jobs) :
        Shortfall(jobs[j]) =>
            /\ jobs[j].state # "failed"
            /\ jobs[j].state = "succeeded" =>
                   /\ jobs[j].error = None
                   /\ Len(jobs[j].question_data[1]) = Recovered(jobs[j])
            /\ (rpc = "done" /\ Dispatched /\ ~AnyJobFailed) =>
                   /\ response.outcome = "returned"
                   /\ response.status = "success"
                   /\ response.data[jobs[j].question_type] = jobs[j].question_data

C6_Witness ==
    /\ rpc = "done"
    /\ response.outcome = "returned"
    /\ \E j \in 1..Len(jobs) :
           /\ Shortfall(jobs[j])
           /\ Recovered(jobs[j]) = 1
           /\ SumCounts(jobs[j].configs) = 3
           /\ jobs[j].state = "succeeded"
           /\ Len(response.data[jobs[j].question_type][1]) = 1

----------------------------------------------------------------------------
(* Further claims about the allocator (SpecAlloc)                          *)

\* round(T * q * d * b) for every combination, the product rounded once,
\* keeping the combinations whose value is positive.
RoundedOnce(total, qd, dd, bd) ==
    LET nd == Len(dd)
        nb == Len(bd)
        Cell(q, d, b) ==
            [question_type |-> q.label, difficulty |-> d.label,
             blooms_level |-> b.label,
             count |-> Round(total * q.num * d.num * b.num,
                             q.den * d.den * b.den)]
        all == [k \in 1..(Len(qd) * nd * nb) |->
                   Cell(qd[((k - 1) \div (nd * nb)) + 1],
                        dd[(((k - 1) \div nb) % nd) + 1],
                        bd[((k - 1) % nb) + 1])]
        Positive(c) == c.count > 0
    IN  SelectSeq(all, Positive)

One == <<[label |-> "any", num |-> 1, den |-> 1]>>

\* C11: before the remainder correction the cells of the global allocator
\* and of the per-type allocator are exactly the combinations whose
\* once-rounded value round(T * product of proportions) is positive, each
\* with that value as its count.
C11_CellsRoundedOnce ==
    /\ apc = "global" =>
           GlobalCells(total_questions, question_type_dist, difficulty_dist,
                       blooms_dist)
           = RoundedOnce(total_questions, question_type_dist, difficulty_dist,
                         blooms_dist)
    /\ apc = "breakdown" =>
           \A i \in 1..Len(BreakdownCells(total_questions, difficulty_dist,
                                          blooms_dist)) :
               LET mine == BreakdownCells(total_questions, difficulty_dist,
                                          blooms_dist)
                   once == RoundedOnce(total_questions, One, difficulty_dist,
                                       blooms_dist)
               IN  /\ Len(mine) = Len(once)
                   /\ mine[i].difficulty = once[i].difficulty
                   /\ mine[i].blooms_level = once[i].blooms_level
                   /\ mine[i].count = once[i].count

\* C12: when the total is positive and no cell exists, the allocator raises
\* nothing and returns the empty allocation.
C12_NoCellsIsNoOp ==
    /\ (/\ apc = "global"
        /\ total_questions > 0
        /\ GlobalCells(total_questions, question_type_dist, difficulty_dist,
                       blooms_dist) = <<>>)
       => (~distribution.raised /\ distribution.cells = <<>>)
    /\ (/\ apc = "breakdown"
        /\ total_questions > 0
        /\ BreakdownCells(total_questions, difficulty_dist, blooms_dist) = <<>>)
       => (~question_breakdown.raised /\ question_breakdown.cells = <<>>)

\* The (difficulty, cognitive level) -> count cells of a list of cells.
LevelCells(cells) ==
    { [difficulty |-> cells[i].difficulty,
       blooms_level |-> cells[i].blooms_level,
       count |-> cells[i].count] : i \in 1..Len(cells) }

\* The per-type allocator applied to what the orchestrator hands the job of
\* one type: the type's total and its two re-derived distributions.
PerTypeAllocation(configs) ==
    QuestionBreakdown(SumCounts(configs), DifficultyDistForType(configs),
                      BloomsDistForType(configs))

\* C13: for every type of the global allocation, the per-type allocator
\* run on the type's total and re-derived distributions returns the cells
\* the global allocation gave that type.  Stated for the allocations whose
\* counts are all positive, where none of the remainder correction's zero or
\* negative counts is involved.
C13_PerTypeReproducesGlobal ==
    (/\ apc = "global"
     /\ ~distribution.raised
     /\ \A i \in 1..Len(distribution.cells) : distribution.cells[i].count > 0) =>
        \A t \in { distribution.cells[i].question_type :
                       i \in 1..Len(distribution.cells) } :
            LET configs == Configs(distribution.cells, t)
            IN  /\ SumCounts(configs) # 0
                /\ ~PerTypeAllocation(configs).raised
                /\ LevelCells(PerTypeAllocation(configs).cells)
                   = LevelCells(configs)

----------------------------------------------------------------------------
(* Further claims about a request (Spec)                                   *)

JobTypes == [j \in 1..Len(jobs) |-> jobs[j].question_type]

\* C14: once the orchestrator is past the dispatch, the dispatched jobs are
\* exactly one per type that has a cell in the global allocation (in order
\* of first appearance): no type twice, no type without cells, none missing.
C14_OneJobPerType ==
    rpc \notin {"start", "allocate"} =>
        JobTypes = TypeOrder(distribution.cells, {})

\* C15: a job queries the generation backend at most once, never before it
\* runs, and exactly once, asking for the job's requested count, when it
\* succeeds; a job whose query failed stays failed with its one call, and
\* the orchestrator holds no second job for a type.
C15_OneBackendCallNoRetry ==
    /\ \A j \in 1..Len(jobs) :
           /\ jobs[j].generate_calls <= 1
           /\ jobs[j].state = "pending" => jobs[j].generate_calls = 0
           /\ jobs[j].state \in {"written", "succeeded"} =>
                  /\ jobs[j].generate_calls = 1
                  /\ jobs[j].prompt_count = Some(SumCounts(jobs[j].configs))
           /\ jobs[j].generate_calls = 1 =>
                  jobs[j].prompt_count = Some(SumCounts(jobs[j].configs))
    /\ \A j, k \in 1..Len(jobs) :
           jobs[j].question_type = jobs[k].question_type => j = k

C15_Witness ==
    /\ rpc = "done"
    /\ \E j, k \in 1..Len(jobs) :
           /\ jobs[j].state = "failed"
           /\ jobs[j].error = Some("backend failure")
           /\ jobs[j].generate_calls = 1
           /\ jobs[k].state = "succeeded"
           /\ jobs[k].generate_calls = 1
           /\ jobs[k].prompt_count = Some(2)

InFlight == \E j \in 1..Len(jobs) : jobs[j].state \in {"pending", "running", "written"}

\* C16: while any dispatched job is pending or running the orchestrator has
\* produced nothing: it has not left the wait, has no status "error", no
\* collected result, no response and no audit record.
C16_NoOutcomeWhileJobsInFlight ==
    InFlight =>
        /\ rpc \in {"awaiting", "shutdown"}
        /\ status = "success"
        /\ files_generated = <<>>
        /\ all_question_data = <<>>
        /\ response = NoResponse
        /\ audit = <<>>

C16_Witness ==
    /\ rpc = "done"
    /\ response.outcome = "raised"
    /\ Len(jobs) = 3
    /\ jobs[1].state = "failed"
    /\ jobs[1].error = Some("backend failure")
    /\ jobs[2].state = "succeeded"
    /\ jobs[3].state = "succeeded"

\* The records a job's own backend text parses to.
OwnRecords(job) ==
    Parse(job.question_type, job.text[1],
          QuestionBreakdown(SumCounts(job.configs), job.difficulty_distribution,
                            job.blooms_distribution).cells).response

\* C17: a returned response holds one entry per dispatched type and nothing
\* else; the entry of a type is the artifact name and the records its own
\* job produced, and files_generated lists the names in dispatch order.
C17_ResultPerDispatchedType ==
    (rpc = "done" /\ response.outcome = "returned") =>
        /\ Len(response.files_generated) = Len(jobs)
        /\ DOMAIN response.data = { jobs[j].question_type : j \in 1..Len(jobs) }
        /\ \A j \in 1..Len(jobs) :
               /\ jobs[j].state = "succeeded"
               /\ response.files_generated[j]
                  = Some(FileName(jobs[j].question_type,
                                  jobs[j].difficulty_distribution,
                                  jobs[j].blooms_distribution))
               /\ response.data[jobs[j].question_type]
                  = Some(OwnRecords(jobs[j]))

SummarizerRaised == rpc \in {"finally", "done"} /\ content_summary = None

AuditWriteRaised == \E i \in 1..Len(audit) : audit[i].outcome = "raised"

\* C18: a request in which the summarizer, the allocator, the submission, a
\* job (its read-back included) or the write of the audit record raised
\* ends in failure for the caller.
C18_EveryFailureFailsRequest ==
    (/\ rpc = "done"
     /\ \/ SummarizerRaised
        \/ distribution.raised
        \/ ~Dispatched
        \/ AnyJobFailed
        \/ AuditWriteRaised)
    => response.outcome = "raised"

ArtifactOf(job) ==
    FileName(job.question_type, job.difficulty_distribution,
             job.blooms_distribution)

\* No two jobs of the request name the same artifact.
DistinctArtifacts ==
    \A j, k \in 1..Len(jobs) : ArtifactOf(jobs[j]) = ArtifactOf(jobs[k]) => j = k

\* The summary, once created, keeps its value, in the request and in every
\* job that received it.
SummaryKept ==
    /\ content_summary # None => content_summary' = content_summary
    /\ Len(jobs) > 0 =>
           /\ Len(jobs') = Len(jobs)
           /\ \A j \in 1..Len(jobs) :
                  jobs'[j].content_summary = jobs[j].content_summary

\* A step changes the record of at most one job, and changes no artifact
\* but the one of that job.
OwnStateOnly ==
    Len(jobs') = Len(jobs) =>
        /\ \A j, k \in 1..Len(jobs) :
               (jobs'[j] # jobs[j] /\ jobs'[k] # jobs[k]) => j = k
        /\ \A n \in DOMAIN files' :
               (n \notin DOMAIN files \/ files'[n] # files[n]) =>
                   \E j \in 1..Len(jobs) :
                       jobs'[j] # jobs[j] /\ n = ArtifactOf(jobs[j])

\* C19: the shared summary is never modified after it is created, the jobs
\* of a request name pairwise different artifacts, and a step of a job reads
\* and writes only that job's own state and artifact.
C19_NoSharedMutableState ==
    [](DistinctArtifacts) /\ [][SummaryKept /\ OwnStateOnly]_vars

C19_Witness ==
    /\ Len(jobs) = 3
    /\ Cardinality(DOMAIN files) = 3
    /\ content_summary = Some("summary")
    /\ \A j \in 1..Len(jobs) : jobs[j].state = "succeeded"

----------------------------------------------------------------------------
(* Claims about the worker pool (SpecPool)                                 *)

RunningJobs == { j \in 1..Len(jobs) : jobs[j].state \in {"running", "written"} }

\* A job leaves the queue only in a step that starts with a free worker.
StartsOnlyOnFreeWorker ==
    \A j \in 1..Len(jobs) :
        (/\ Len(jobs') = Len(jobs)
         /\ jobs[j].state = "pending"
         /\ jobs'[j].state # "pending")
        => Cardinality(RunningJobs) < 3

\* C20: at most 3 jobs of a request run at any moment; a pending job starts
\* only when fewer than 3 are running; and every dispatched job is
\* eventually run.
C20_AtMostThreeRunning ==
    /\ [](Cardinality(RunningJobs) <= 3)
    /\ [][StartsOnlyOnFreeWorker]_vars
    /\ \A j \in 1..Len(PoolTypes) :
           (j <= Len(jobs) /\ jobs[j].state = "pending")
               ~> (/\ j <= Len(jobs)
                   /\ jobs[j].state \in {"running", "written", "succeeded",
                                         "failed"})

C20_Witness ==
    /\ Len(jobs) = 4
    /\ Cardinality(RunningJobs) = 3
    /\ jobs[4].state = "pending"

----------------------------------------------------------------------------
(* Claims about termination (SpecLive)                                     *)

\* A job that is Succeeded or Failed is left as it is by every step.
TerminalJobsKept ==
    \A j \in 1..Len(jobs) :
        Terminal(jobs[j]) => (j <= Len(jobs') /\ jobs'[j] = jobs[j])

JobsSettled == \A j \in 1..Len(jobs) : Terminal(jobs[j])

RequestEnded == rpc = "done" /\ response.outcome \in {"returned", "raised"}

\* C21: provided every backend call returns or raises, every dispatched job
\* eventually is Succeeded or Failed and never changes afterwards, also
\* when another job of the request has failed, and the request eventually
\* is Completed or Failed.
C21_JobsAndRequestTerminate ==
    /\ (Len(jobs) > 0) ~> JobsSettled
    /\ [][TerminalJobsKept]_vars
    /\ <>RequestEnded

\* The first job has failed, a later job has run to success after it could
\* have been cancelled, and the request has ended.
C21_Witness ==
    /\ RequestEnded
    /\ Len(jobs) = 4
    /\ jobs[1].state = "failed"
    /\ jobs[1].generate_calls = 1
    /\ jobs[2].state = "succeeded"
    /\ jobs[3].state = "succeeded"
    /\ jobs[4].state = "failed"

----------------------------------------------------------------------------
(* Claims about the failure of the summarizer (Spec)                       *)

\* C22: if the summarization backend raises, the request ends in failure,
\* no job is dispatched, the generation backend is never called and the
\* summarizer is not called again.
C22_SummarizerFailureEndsRequest ==
    SummarizerRaised =>
        /\ jobs = <<>>
        /\ files = <<>>
        /\ summary_calls = 1
        /\ status = "error"
        /\ rpc = "done" => response.outcome = "raised"

C22_Witness ==
    /\ SummarizerRaised
    /\ rpc = "done"
    /\ summary_calls = 1
    /\ response.outcome = "raised"

----------------------------------------------------------------------------
(* Claims about the remainder correction (SpecAlloc)                       *)

\* The cells `after` are the cells `before` with delta added to the count of
\* the first cell of the largest count and nothing else changed.
OnlyLargestChanged(before, after, delta) ==
    /\ Len(after) = Len(before)
    /\ \E k \in 1..Len(before) :
           /\ \A j \in 1..Len(before) : before[j].count <= before[k].count
           /\ \A j \in 1..(k - 1) : before[j].count < before[k].count
           /\ after[k].count = before[k].count + delta
           /\ after[k].difficulty = before[k].difficulty
           /\ after[k].blooms_level = before[k].blooms_level
           /\ \A j \in 1..Len(before) : j # k => after[j] = before[j]

Corrected(before, out, total) ==
    IF SumCounts(before) = total
    THEN ~out.raised /\ out.cells = before
    ELSE ~out.raised
         /\ OnlyLargestChanged(before, out.cells, total - SumCounts(before))

\* C23: when the rounded counts do not sum to the total, the correction
\* adds the whole difference to exactly one cell, the first cell of the
\* largest count, and changes no other cell; when they sum to the total,
\* no cell is changed.
C23_CorrectionChangesOneCell ==
    /\ apc = "global" =>
           Corrected(GlobalCells(total_questions, question_type_dist,
                                 difficulty_dist, blooms_dist),
                     distribution, total_questions)
    /\ apc = "breakdown" =>
           Corrected(BreakdownCells(total_questions, difficulty_dist,
                                    blooms_dist),
                     question_breakdown, total_questions)

----------------------------------------------------------------------------
(* Claims about the error surfaced to the caller (Spec)                    *)

FailedJobs == { j \in 1..Len(jobs) : jobs[j].state = "failed" }

FirstFailed == CHOOSE j \in FailedJobs : \A k \in FailedJobs : j <= k

\* C24: when several jobs of a request fail, the error the caller gets is
\* that of the failed job that is first in dispatch order, whatever the
\* order in which the jobs finished.
C24_FirstFailedJobInDispatchOrder ==
    (rpc = "done" /\ Cardinality(FailedJobs) >= 2) =>
        /\ response.outcome = "raised"
        /\ response.detail =
               "Error generating questions: Error in "
                   \o jobs[FirstFailed].question_type \o ": "
                   \o jobs[FirstFailed].error[1]

----------------------------------------------------------------------------
(* Claims about the length of the metadata sequence (SpecAlloc)            *)

\* C25: in a generation job whose breakdown was built, the metadata
\* sequence has exactly num_questions entries, the count asked of the
\* backend, so num_questions records all get metadata.
C25_SequenceLengthIsNumQuestions ==
    (apc = "breakdown" /\ ~question_breakdown.raised) =>
        Len(question_sequence) = total_questions

----------------------------------------------------------------------------
(* Claims about the answer list of parse_fill_in_blank (SpecAnswer)        *)

\* The answer text of the parsed block.
GivenAnswerText == SubSeq(res, 2, Len(res) - 1)

\* A line that begins with a digit immediately followed by ". ".
Numbered(line) ==
    /\ Len(line) >= 3
    /\ line[1] \in Digits
    /\ line[2] = "."
    /\ line[3] = " "

\* One entry per non-empty line, in line order: a numbered line without its
\* numbering, every other line whole.
RECURSIVE EntryPerLine(_)
EntryPerLine(lines) ==
    IF lines = <<>> THEN <<>>
    ELSE LET line == Strip(Head(lines))
         IN  (IF line = <<>> THEN <<>>
              ELSE IF Numbered(line)
              THEN <<Strip(SubSeq(line, 4, Len(line)))>>
              ELSE <<line>>)
             \o EntryPerLine(Tail(lines))

\* C26: the answer list of parse_fill_in_blank has one entry per non-empty
\* line of the answer text, in line order; a line loses a leading prefix
\* only when it begins with a digit immediately followed by ". ", and
\* every other line is kept whole.
C26_AnswerEntryPerLine ==
    (ppc = "parsed" /\ Len(responses) = 1) =>
        responses[1].answer =
            EntryPerLine(Split(Strip(GivenAnswerText), "\n"))

----------------------------------------------------------------------------
(* Claims about the totals of the item types (SpecAlloc)                   *)

\* round(T x type proportion), the first-level count of the i-th type.
FirstLevelCount(i) ==
    Round(total_questions * question_type_dist[i].num, question_type_dist[i].den)

RECURSIVE SumFirstLevel(_)
SumFirstLevel(n) == IF n = 0 THEN 0 ELSE FirstLevelCount(n) + SumFirstLevel(n - 1)

\* The total of a type in the final allocation: the sum of its cell counts.
TypeTotal(t) ==
    LET OfType(c) == c.question_type = t
    IN  SumCounts(SelectSeq(distribution.cells, OfType))

\* C27: whenever the first-level counts round(T x type proportion) sum to
\* T, every type's total in the final allocation equals its first-level
\* count, so every type with a first-level count of at least 1 has a cell
\* and gets a job.
C27_TypeTotalsAreFirstLevelCounts ==
    (apc = "global" /\ SumFirstLevel(Len(question_type_dist)) = total_questions)
        => /\ ~distribution.raised
           /\ \A i \in 1..Len(question_type_dist) :
                  /\ TypeTotal(question_type_dist[i].label) = FirstLevelCount(i)
                  /\ FirstLevelCount(i) >= 1 =>
                         \E k \in 1..Len(distribution.cells) :
                             distribution.cells[k].question_type
                                 = question_type_dist[i].label

----------------------------------------------------------------------------
(* Claims about the totals and local distributions of dispatched types     *)
(* (Spec)                                                                  *)

\* The sum of the proportions num / den of a distribution is exactly 1.
SumsToOne(dist) ==
    /\ \A i \in 1..Len(dist) : dist[i].den = dist[1].den
    /\ dist # <<>>
    /\ dist[1].den # 0
    /\ SumNum([i \in 1..Len(dist) |-> dist[i].num]) = dist[1].den

\* C28: every item type of the allocation that the handler goes through
\* has a total of at least 1, the division by the total never raises, and
\* the local difficulty and cognitive-level distributions of every
\* dispatched job each sum to exactly 1.
C28_DispatchedTotalsPositive ==
    /\ rpc # "shutdown"
    /\ LET types == TypeOrder(distribution.cells, {})
       IN  \A i \in 1..Len(types) :
               SumCounts(Configs(distribution.cells, types[i])) >= 1
    /\ \A j \in 1..Len(jobs) :
           /\ SumCounts(jobs[j].configs) >= 1
           /\ SumsToOne(jobs[j].difficulty_distribution)
           /\ SumsToOne(jobs[j].blooms_distribution)

----------------------------------------------------------------------------
(* Claims about two requests processed concurrently (SpecShared)           *)

\* C29: with two requests processed concurrently, also under the same
\* artifact name, the records a request holds and returns for a type are
\* exactly the records parsed from the text its own job received.
C29_OwnRecordsUnderConcurrency ==
    /\ \A j \in 1..Len(jobs) :
           jobs[j].state = "succeeded" =>
               jobs[j].question_data = Some(OwnRecords(jobs[j]))
    /\ (rpc = "done" /\ response.outcome = "returned") =>
           \A j \in 1..Len(jobs) :
               jobs[j].state = "succeeded" =>
                   response.data[jobs[j].question_type]
                       = Some(OwnRecords(jobs[j]))

----------------------------------------------------------------------------
(* Claims about the audit record (Spec)                                    *)

\* C30: exactly one audit record is attempted per request whatever its
\* outcome; for a failed request the record has status "error", a
\* non-empty error message, no generated file and no response data, also
\* when some jobs had succeeded before the failure was found.
C30_OneAuditRecordPerRequest ==
    rpc = "done" =>
        /\ Len(audit) = 1
        /\ response.outcome = "raised" =>
               /\ audit[1].status = "error"
               /\ audit[1].error_message # ""
               /\ audit[1].files_generated = <<>>
               /\ audit[1].response_data = <<>>

====
